---- MODULE Spec2Model ----
(***************************************************************************)
(* Seq2SeqLanguageModel of examples/language_modelling: the tokenizer and  *)
(* detokenizer (text2tensor, tensor2text), the generation facade           *)
(* (generate) and the training loop (fit), with the decoding strategies of *)
(* the base class Seq2Seq (greedy_search, sample, beam_search).            *)
(*                                                                         *)
(* A string is a sequence of one-character strings, a vocabulary symbol is *)
(* such a string, a tensor of indices is a sequence of rows, each a        *)
(* sequence of integers.  Python's 0-based positions are kept in the loss  *)
(* terms; sequences themselves are 1-based as TLA+ has them.               *)
(***************************************************************************)
EXTENDS Integers, Sequences, FiniteSets, TLC

VARIABLES
    in_vocabulary,   \* self.in_vocabulary: symbol -> index
    out_vocabulary,  \* self.out_vocabulary: index -> symbol
    training,        \* self.training, switched by self.eval() and self.train()
    saved,           \* number of torch.save calls performed so far
    pc,              \* position of the running call
    call,            \* the running call's name and arguments
    X,               \* local X of generate, the tensor of text2tensor
    Y,               \* local Y of generate, the value a decoding strategy returned
    dec,             \* hypotheses of the running decoding strategy, one entry per row
    strategy,        \* the decoding strategy the running call invoked, or None
    calls,           \* scoring-model invocations (self.forward) made by the running call
    ret,             \* the value the call returned
    raised,          \* the exception the call raised, or None
    fitst            \* locals of fit: epoch e, the data loader's iterator, losses, loss terms

vars == <<in_vocabulary, out_vocabulary, training, saved, pc, call, X, Y, dec,
          strategy, calls, ret, raised, fitst>>

None == "None"

(***************************************************************************)
(* Bounds of the model.                                                    *)
(***************************************************************************)
MaxLen == 2          \* symbols per string handed to text2tensor
MaxBatch == 2        \* strings per batch handed to text2tensor
MaxRowLen == 3       \* indices per row handed to tensor2text directly
MaxPredictions == 2  \* max_predictions handed to generate
MaxBeam == 2         \* candidates and beam_width handed to generate
MaxRows == 2         \* rows of the dataset handed to fit
MaxTargetLen == 3    \* symbols per target row, START and padding included
MaxEpochs == 2       \* epochs handed to fit

(***************************************************************************)
(* Vocabulary symbols.                                                     *)
(***************************************************************************)
PadSymbol == <<"<", "P", "A", "D", ">">>
StartSymbol == <<"<", "S", "T", "A", "R", "T", ">">>
EndDefault == <<"<", "E", "N", "D", ">">>
LetterA == <<"a">>
Newline == <<"\n">>

\* A vocabulary of the data model: index 0 is the pad symbol.
VocabularyA == (0 :> PadSymbol) @@ (1 :> LetterA) @@ (2 :> Newline)
               @@ (3 :> EndDefault) @@ (4 :> StartSymbol)

\* The same symbols with two indices exchanged.
VocabularyB == (0 :> PadSymbol) @@ (1 :> Newline) @@ (2 :> LetterA)
               @@ (3 :> EndDefault) @@ (4 :> StartSymbol)

OutVocabularies == {VocabularyA, VocabularyB}

\* The symbol -> index mapping that a vocabulary index -> symbol inverts.
Inverse(v) == [s \in {v[i] : i \in DOMAIN v} |-> CHOOSE i \in DOMAIN v : v[i] = s]

InVocabularies == {Inverse(v) : v \in OutVocabularies}

(***************************************************************************)
(* Strings.                                                                *)
(***************************************************************************)
RECURSIVE Concat(_)
\* "".join(parts)
Concat(parts) ==
    IF parts = <<>> THEN <<>> ELSE Head(parts) \o Concat(Tail(parts))

RECURSIVE Join(_, _)
\* separator.join(parts)
Join(separator, parts) ==
    IF Len(parts) <= 1 THEN Concat(parts)
    ELSE Head(parts) \o separator \o Join(separator, Tail(parts))

\* pattern occurs in s starting at position i
MatchAt(pattern, s, i) ==
    /\ i + Len(pattern) - 1 <= Len(s)
    /\ \A k \in 1..Len(pattern) : s[i + k - 1] = pattern[k]

\* pattern occurs somewhere in s
Contains(s, pattern) == \E i \in 1..Len(s) : MatchAt(pattern, s, i)

\* Where the greedy ".*" that starts at position i stops: "." matches every
\* character but the newline, so the match ends before the first newline at
\* or after i, or at the end of the string.
DotStarEnd(s, i) ==
    IF \E j \in i..Len(s) : s[j] = "\n"
    THEN CHOOSE j \in i..Len(s) : s[j] = "\n" /\ \A k \in i..(j - 1) : s[k] # "\n"
    ELSE Len(s) + 1

RECURSIVE ReSubFrom(_, _, _)
\* re.sub(end + ".*", end, s) from position i on: every non-overlapping match,
\* leftmost first, is replaced by end; the other characters are copied.
ReSubFrom(end, s, i) ==
    IF i > Len(s) THEN <<>>
    ELSE IF MatchAt(end, s, i)
         THEN end \o ReSubFrom(end, s, DotStarEnd(s, i + Len(end)))
         ELSE <<s[i]>> \o ReSubFrom(end, s, i + 1)

ReSub(end, s) == ReSubFrom(end, s, 1)

(***************************************************************************)
(* Tokenizer and detokenizer.                                              *)
(***************************************************************************)
\* tensor2text(self, X, separator, vocabulary, end)
tensor2text(T, separator, vocabulary, end) ==
    LET voc == IF vocabulary.given THEN vocabulary.v ELSE out_vocabulary
    IN [r \in DOMAIN T |->
           ReSub(end, Join(separator, [k \in DOMAIN T[r] |-> voc[T[r][k]]]))]

Max(S) == CHOOSE m \in S : \A x \in S : x <= m

\* nn.utils.rnn.pad_sequence(rows, batch_first = True): right padding with 0
pad_sequence(rows) ==
    LET width == Max({Len(rows[r]) : r \in DOMAIN rows})
    IN [r \in DOMAIN rows |->
           [k \in 1..width |-> IF k <= Len(rows[r]) THEN rows[r][k] ELSE 0]]

\* text2tensor(self, strings)
text2tensor(strings) ==
    pad_sequence([r \in DOMAIN strings |->
                     [k \in DOMAIN strings[r] |-> in_vocabulary[strings[r][k]]]])

(***************************************************************************)
(* Inputs of the tokenizer calls.                                          *)
(***************************************************************************)
SeqsUpTo(S, n) == UNION {[1..k -> S] : k \in 1..n}

Strings == SeqsUpTo(DOMAIN in_vocabulary, MaxLen)
StringBatches == SeqsUpTo(Strings, MaxBatch)
Rows == SeqsUpTo(DOMAIN out_vocabulary, MaxRowLen)
Separators == {<<>>, <<" ">>, <<"\n">>}
Ends == {EndDefault, LetterA}

\* The vocabulary argument of tensor2text: None (the default), or a vocabulary.
NoVocabulary == [given |-> FALSE]
VocabularyArgs == {NoVocabulary} \cup {[given |-> TRUE, v |-> v] : v \in OutVocabularies}

ModelIdle ==
    /\ training = TRUE
    /\ saved = 0
    /\ X = None
    /\ Y = None
    /\ dec = None
    /\ strategy = None
    /\ calls = 0
    /\ ret = None
    /\ raised = None
    /\ fitst = None

(***************************************************************************)
(* The tokenizer on its own, on a model with any of the vocabularies: one  *)
(* call of tensor2text on any row, or one call of text2tensor followed by  *)
(* tensor2text on the tensor it returned.                                  *)
(***************************************************************************)
TokInit ==
    /\ in_vocabulary \in InVocabularies
    /\ out_vocabulary \in OutVocabularies
    /\ pc = "idle"
    /\ call = [op |-> "none"]
    /\ ModelIdle

\* A call of text2tensor; its tensor is kept in X.
Text2Tensor ==
    /\ pc = "idle"
    /\ \E strings \in StringBatches :
          /\ call' = [op |-> "text2tensor", strings |-> strings]
          /\ X' = text2tensor(strings)
          /\ ret' = text2tensor(strings)
    /\ pc' = "tensor"
    /\ UNCHANGED <<in_vocabulary, out_vocabulary, training, saved, Y, dec,
                   strategy, calls, raised, fitst>>

\* A call of tensor2text on a one-row tensor.
Tensor2Text ==
    /\ pc = "idle"
    /\ \E row \in Rows, separator \in Separators,
          vocabulary \in VocabularyArgs, end \in Ends :
          /\ call' = [op |-> "tensor2text", X |-> <<row>>, separator |-> separator,
                      vocabulary |-> vocabulary, end |-> end]
          /\ ret' = tensor2text(<<row>>, separator, vocabulary, end)
    /\ pc' = "text"
    /\ UNCHANGED <<in_vocabulary, out_vocabulary, training, saved, X, Y, dec,
                   strategy, calls, raised, fitst>>

\* tensor2text, with its default arguments, on the tensor text2tensor returned.
Detokenize ==
    /\ pc = "tensor"
    /\ call' = [op |-> "roundtrip", strings |-> call.strings, X |-> X,
                separator |-> <<>>, vocabulary |-> NoVocabulary, end |-> EndDefault]
    /\ ret' = tensor2text(X, <<>>, NoVocabulary, EndDefault)
    /\ pc' = "text"
    /\ UNCHANGED <<in_vocabulary, out_vocabulary, training, saved, X, Y, dec,
                   strategy, calls, raised, fitst>>

TokNext == Tensor2Text \/ Text2Tensor \/ Detokenize

TokSpec == TokInit /\ [][TokNext]_vars

(***************************************************************************)
(* The scoring model and the decoding strategies of the base class.        *)
(*                                                                         *)
(* A next-symbol distribution gives every symbol of the output vocabulary  *)
(* a log-probability level; the scoring model is any function of the       *)
(* source row and the partial output, so each invocation draws one         *)
(* distribution per distinct (source, partial output) pair.                *)
(***************************************************************************)
Symbols == DOMAIN out_vocabulary

StartIndex == CHOOSE i \in Symbols : out_vocabulary[i] = StartSymbol

LogP == {-2, -1}

\* The distributions the scoring model returns: one symbol is more probable
\* than every other, so the arg-max is unique.
Dist == {d \in [Symbols -> LogP] : Cardinality({s \in Symbols : d[s] = -1}) = 1}

\* self.forward for decoding: one distribution per context
Forward(contexts) == [contexts -> Dist]

ArgMax(d) == CHOOSE s \in Symbols : \A t \in Symbols : d[t] <= d[s]

\* The single START hypothesis with score 0.
StartHypothesis == [seq |-> <<StartIndex>>, score |-> 0]

\* One step of greedy search on one row: the arg-max symbol is appended and
\* its log-probability accumulated.
GreedyAdvance(h, d) ==
    [seq |-> Append(h.seq, ArgMax(d)), score |-> h.score + d[ArgMax(d)]]

\* One step of sampling on one row: the symbol drawn is appended.
SampleAdvance(h, drawn) == [seq |-> Append(h.seq, drawn)]

\* Position of symbol s when the symbols are ordered by ascending
\* log-probability.
SymbolRankAscending(d, s) ==
    Cardinality({t \in Symbols : d[t] < d[s] \/ (d[t] = d[s] /\ t < s)})

\* Position of symbol s when the symbols are ordered by descending
\* log-probability, equal ones by index.
SymbolRank(d, s) ==
    Cardinality({t \in Symbols : d[t] > d[s] \/ (d[t] = d[s] /\ t < s)})

\* The k most probable symbols, best first.
TopSymbols(d, k) == [j \in 1..k |-> CHOOSE s \in Symbols : SymbolRank(d, s) = j - 1]

Min(a, b) == IF a <= b THEN a ELSE b

\* Every live hypothesis with each of its top continuations, in beam order.
Expand(hyps, ds, k) ==
    [c \in 1..(Len(hyps) * k) |->
        LET i == ((c - 1) \div k) + 1
            s == TopSymbols(ds[i], k)[((c - 1) % k) + 1]
        IN [seq |-> Append(hyps[i].seq, s), score |-> hyps[i].score + ds[i][s]]]

\* Position of candidate c when the candidates are ordered by descending
\* cumulative score, equal ones by insertion order.
CandidateRank(cands, c) ==
    Cardinality({b \in DOMAIN cands :
                    \/ cands[b].score > cands[c].score
                    \/ (cands[b].score = cands[c].score /\ b < c)})

\* The global top-width candidates, best first.
Prune(cands, width) ==
    [p \in 1..width |-> cands[CHOOSE c \in DOMAIN cands : CandidateRank(cands, c) = p - 1]]

\* One step of beam search on one row.
BeamAdvance(hyps, ds, width) ==
    Prune(Expand(hyps, ds, Min(width, Cardinality(Symbols))), width)

\* beam_width copies of the START hypothesis.
StartBeam(width) == [i \in 1..width |-> StartHypothesis]

\* What greedy_search returns: (sequences, scores).
GreedyResult(hyps) ==
    [kind |-> "tuple",
     sequences |-> [r \in DOMAIN hyps |-> hyps[r].seq],
     scores |-> [r \in DOMAIN hyps |-> hyps[r].score]]

\* What sample returns: sequences only.
SampleResult(hyps) ==
    [kind |-> "tensor", sequences |-> [r \in DOMAIN hyps |-> hyps[r].seq]]

\* What beam_search returns: the top candidates hypotheses of every row with
\* their scores, best first.
BeamResult(beams, candidates) ==
    [kind |-> "tuple",
     sequences |-> [r \in DOMAIN beams |-> [c \in 1..candidates |-> beams[r][c].seq]],
     scores |-> [r \in DOMAIN beams |-> [c \in 1..candidates |-> beams[r][c].score]]]

\* Steps a decoding strategy has made: symbols appended after START.
StepsDone(seq) == Len(seq) - 1

(***************************************************************************)
(* generate.                                                               *)
(***************************************************************************)
DefaultTemperature == 1
DefaultCandidates == 5
DefaultBeamWidth == 5

\* The batches handed to generate: one string, and two strings of different
\* lengths, which text2tensor pads.
InputTexts == {<<LetterA>>, <<LetterA \o LetterA, LetterA>>}
Methods == {"greedy_search", "sample", "beam_search", "greedy", "beam"}
Temperatures == -1..1

\* The calls of generate: the arguments a method does not read keep their
\* defaults.
GenerateCalls ==
    {[op |-> "generate", input_text |-> t, max_predictions |-> n, method |-> m,
      temperature |-> DefaultTemperature, candidates |-> DefaultCandidates,
      beam_width |-> DefaultBeamWidth] :
        t \in InputTexts, n \in 1..MaxPredictions, m \in Methods \ {"sample", "beam_search"}}
    \cup
    {[op |-> "generate", input_text |-> t, max_predictions |-> n, method |-> "sample",
      temperature |-> T, candidates |-> DefaultCandidates,
      beam_width |-> DefaultBeamWidth] :
        t \in InputTexts, n \in 1..MaxPredictions, T \in Temperatures}
    \cup
    {[op |-> "generate", input_text |-> t, max_predictions |-> n, method |-> "beam_search",
      temperature |-> DefaultTemperature, candidates |-> c, beam_width |-> w] :
        t \in InputTexts, n \in 1..MaxPredictions, c \in 1..MaxBeam, w \in 1..MaxBeam}

Init ==
    /\ out_vocabulary = VocabularyA
    /\ in_vocabulary = Inverse(VocabularyA)
    /\ pc = "generate"
    /\ call \in GenerateCalls
    /\ ModelIdle

\* Line 71: X = self.text2tensor(input_text)
GenTokenize ==
    /\ pc = "generate"
    /\ X' = text2tensor(call.input_text)
    /\ pc' = "dispatch"
    /\ UNCHANGED <<in_vocabulary, out_vocabulary, training, saved, call, Y, dec,
                   strategy, calls, ret, raised, fitst>>

\* Entry of greedy_search(T, max_steps): one START hypothesis per row.
GreedyEnter(T, max_steps) ==
    /\ strategy' = "greedy_search"
    /\ dec' = [r \in DOMAIN T |-> StartHypothesis]
    /\ pc' = "greedy_search"
    /\ UNCHANGED raised

\* Entry of sample(T, max_steps, temperature): the temperature is validated
\* before the scoring model is invoked.
SampleEnter(T, max_steps, temperature) ==
    /\ strategy' = "sample"
    /\ IF temperature <= 0
       THEN /\ raised' = "InvalidArgument"
            /\ pc' = "raised"
            /\ UNCHANGED dec
       ELSE /\ dec' = [r \in DOMAIN T |-> [seq |-> <<StartIndex>>]]
            /\ pc' = "sample"
            /\ UNCHANGED raised

\* Entry of beam_search(T, max_steps, candidates, beam_width): the arguments
\* are validated before the scoring model is invoked.
BeamEnter(T, max_steps, candidates, beam_width) ==
    /\ strategy' = "beam_search"
    /\ IF candidates > beam_width
       THEN /\ raised' = "InvalidArgument"
            /\ pc' = "raised"
            /\ UNCHANGED dec
       ELSE /\ dec' = [r \in DOMAIN T |-> StartBeam(beam_width)]
            /\ pc' = "beam_search"
            /\ UNCHANGED raised

\* Lines 72-73
DispatchGreedy ==
    /\ pc = "dispatch"
    /\ call.method = "greedy_search"
    /\ GreedyEnter(X, call.max_predictions)
    /\ UNCHANGED <<in_vocabulary, out_vocabulary, training, saved, call, X, Y,
                   calls, ret, fitst>>

\* Lines 74-76 without the temperature argument: sample runs with its default.
DispatchSampleDefaultTemperature ==
    /\ pc = "dispatch"
    /\ call.method = "sample"
    /\ SampleEnter(X, call.max_predictions, DefaultTemperature)
    /\ UNCHANGED <<in_vocabulary, out_vocabulary, training, saved, call, X, Y,
                   calls, ret, fitst>>

\* Lines 74-76
DispatchSample ==
    /\ pc = "dispatch"
    /\ call.method = "sample"
    /\ SampleEnter(X, call.max_predictions, call.temperature)
    /\ UNCHANGED <<in_vocabulary, out_vocabulary, training, saved, call, X, Y,
                   calls, ret, fitst>>

\* Lines 77-81
DispatchBeam ==
    /\ pc = "dispatch"
    /\ call.method = "beam_search"
    /\ BeamEnter(X, call.max_predictions, call.candidates, call.beam_width)
    /\ UNCHANGED <<in_vocabulary, out_vocabulary, training, saved, call, X, Y,
                   calls, ret, fitst>>

\* Lines 83-84 replaced by a fall-back to the default strategy.
DispatchUnknownAsGreedy ==
    /\ pc = "dispatch"
    /\ call.method \notin {"greedy_search", "sample", "beam_search"}
    /\ GreedyEnter(X, call.max_predictions)
    /\ UNCHANGED <<in_vocabulary, out_vocabulary, training, saved, call, X, Y,
                   calls, ret, fitst>>

\* Lines 83-84
DispatchUnknown ==
    /\ pc = "dispatch"
    /\ call.method \notin {"greedy_search", "sample", "beam_search"}
    /\ raised' = "ValueError"
    /\ pc' = "raised"
    /\ UNCHANGED <<in_vocabulary, out_vocabulary, training, saved, call, X, Y, dec,
                   strategy, calls, ret, fitst>>

\* A step of greedy_search: one invocation of the scoring model for the batch.
GreedyStep ==
    /\ pc = "greedy_search"
    /\ \E r \in DOMAIN dec : StepsDone(dec[r].seq) < call.max_predictions
    /\ \E f \in Forward({<<X[r], dec[r].seq>> : r \in DOMAIN dec}) :
          dec' = [r \in DOMAIN dec |-> GreedyAdvance(dec[r], f[<<X[r], dec[r].seq>>])]
    /\ calls' = calls + 1
    /\ UNCHANGED <<in_vocabulary, out_vocabulary, training, saved, pc, call, X, Y,
                   strategy, ret, raised, fitst>>

\* greedy_search returns and line 73 binds the pair to Y.
GreedyReturn ==
    /\ pc = "greedy_search"
    /\ \A r \in DOMAIN dec : StepsDone(dec[r].seq) = call.max_predictions
    /\ Y' = GreedyResult(dec)
    /\ pc' = "cat"
    /\ UNCHANGED <<in_vocabulary, out_vocabulary, training, saved, call, X, dec,
                   strategy, calls, ret, raised, fitst>>

\* A step of sample: the scoring model is invoked and every row draws a
\* symbol from its rescaled distribution, in which no symbol has probability 0.
SampleStep ==
    /\ pc = "sample"
    /\ \E r \in DOMAIN dec : StepsDone(dec[r].seq) < call.max_predictions
    /\ \E drawn \in [DOMAIN dec -> Symbols] :
          dec' = [r \in DOMAIN dec |-> SampleAdvance(dec[r], drawn[r])]
    /\ calls' = calls + 1
    /\ UNCHANGED <<in_vocabulary, out_vocabulary, training, saved, pc, call, X, Y,
                   strategy, ret, raised, fitst>>

\* sample returns and line 76 binds the sequences to Y.
SampleReturn ==
    /\ pc = "sample"
    /\ \A r \in DOMAIN dec : StepsDone(dec[r].seq) = call.max_predictions
    /\ Y' = SampleResult(dec)
    /\ pc' = "cat"
    /\ UNCHANGED <<in_vocabulary, out_vocabulary, training, saved, call, X, dec,
                   strategy, calls, ret, raised, fitst>>

\* A step of beam_search: the scoring model is invoked for every live
\* hypothesis of every row.
BeamStep ==
    /\ pc = "beam_search"
    /\ \E r \in DOMAIN dec : StepsDone(dec[r][1].seq) < call.max_predictions
    /\ \E f \in Forward({<<X[r], dec[r][i].seq>> : r \in DOMAIN dec, i \in 1..call.beam_width}) :
          dec' = [r \in DOMAIN dec |->
                     BeamAdvance(dec[r],
                                 [i \in DOMAIN dec[r] |-> f[<<X[r], dec[r][i].seq>>]],
                                 call.beam_width)]
    /\ calls' = calls + 1
    /\ UNCHANGED <<in_vocabulary, out_vocabulary, training, saved, pc, call, X, Y,
                   strategy, ret, raised, fitst>>

\* Line 82: Y[:, 0, :] of the sequences beam_search returned
FirstCandidate(result) ==
    [kind |-> "tensor",
     sequences |-> [r \in DOMAIN result.sequences |-> result.sequences[r][1]]]

\* beam_search returns; lines 80-82 unpack the pair and keep the first
\* candidate of every row.
BeamReturn ==
    /\ pc = "beam_search"
    /\ \A r \in DOMAIN dec : StepsDone(dec[r][1].seq) = call.max_predictions
    /\ Y' = FirstCandidate(BeamResult(dec, call.candidates))
    /\ pc' = "cat"
    /\ UNCHANGED <<in_vocabulary, out_vocabulary, training, saved, call, X, dec,
                   strategy, calls, ret, raised, fitst>>

\* torch.cat((X, Y[:, 1:]), axis = 1)
CatContinuation(T, sequences) == [r \in DOMAIN T |-> T[r] \o Tail(sequences[r])]

\* Line 85: Y[:, 1:] of a pair is a TypeError; of a tensor, the continuation
\* without its first symbol.
GenReturn ==
    /\ pc = "cat"
    /\ IF Y.kind = "tuple"
       THEN /\ raised' = "TypeError"
            /\ pc' = "raised"
            /\ UNCHANGED ret
       ELSE /\ ret' = tensor2text(CatContinuation(X, Y.sequences), <<>>,
                                  NoVocabulary, EndDefault)
            /\ pc' = "done"
            /\ UNCHANGED raised
    /\ UNCHANGED <<in_vocabulary, out_vocabulary, training, saved, call, X, Y, dec,
                   strategy, calls, fitst>>

Next ==
    \/ GenTokenize
    \/ DispatchGreedy
    \/ DispatchSample
    \/ DispatchBeam
    \/ DispatchUnknown
    \/ GreedyStep
    \/ GreedyReturn
    \/ SampleStep
    \/ SampleReturn
    \/ BeamStep
    \/ BeamReturn
    \/ GenReturn

Spec == Init /\ [][Next]_vars

(***************************************************************************)
(* greedy_search and beam_search side by side on the same source batch and *)
(* the same scoring model: at every step the model is one function of the  *)
(* (source, partial output) pairs both strategies ask about.               *)
(***************************************************************************)
DecodeCalls ==
    {[op |-> "decode", source |-> t, max_steps |-> n, candidates |-> c, beam_width |-> w] :
        t \in InputTexts, n \in 1..MaxPredictions, c \in 1..MaxBeam, w \in 1..MaxBeam}

DecodeInit ==
    /\ out_vocabulary = VocabularyA
    /\ in_vocabulary = Inverse(VocabularyA)
    /\ pc = "decode"
    /\ call \in {c \in DecodeCalls : c.candidates <= c.beam_width}
    /\ training = TRUE
    /\ saved = 0
    /\ X = text2tensor(call.source)
    /\ Y = None
    /\ dec = [greedy |-> [r \in DOMAIN call.source |-> StartHypothesis],
              beam |-> [r \in DOMAIN call.source |-> StartBeam(call.beam_width)]]
    /\ strategy = None
    /\ calls = 0
    /\ ret = None
    /\ raised = None
    /\ fitst = None

\* The contexts the two strategies hand to the scoring model at this step.
DecodeContexts ==
    {<<X[r], dec.greedy[r].seq>> : r \in DOMAIN X}
    \cup {<<X[r], dec.beam[r][i].seq>> : r \in DOMAIN X, i \in 1..call.beam_width}

\* One step of both strategies.
DecodeStep ==
    /\ pc = "decode"
    /\ \E r \in DOMAIN X : StepsDone(dec.greedy[r].seq) < call.max_steps
    /\ \E f \in Forward(DecodeContexts) :
          dec' = [greedy |-> [r \in DOMAIN X |->
                                 GreedyAdvance(dec.greedy[r], f[<<X[r], dec.greedy[r].seq>>])],
                  beam |-> [r \in DOMAIN X |->
                               BeamAdvance(dec.beam[r],
                                           [i \in DOMAIN dec.beam[r] |->
                                               f[<<X[r], dec.beam[r][i].seq>>]],
                                           call.beam_width)]]
    /\ calls' = calls + 1
    /\ UNCHANGED <<in_vocabulary, out_vocabulary, training, saved, pc, call, X, Y,
                   strategy, ret, raised, fitst>>

\* Both strategies return.
DecodeReturn ==
    /\ pc = "decode"
    /\ \A r \in DOMAIN X : StepsDone(dec.greedy[r].seq) = call.max_steps
    /\ ret' = [greedy |-> GreedyResult(dec.greedy),
               beam |-> BeamResult(dec.beam, call.candidates)]
    /\ pc' = "done"
    /\ UNCHANGED <<in_vocabulary, out_vocabulary, training, saved, call, X, Y, dec,
                   strategy, calls, raised, fitst>>

DecodeNext == DecodeStep \/ DecodeReturn

DecodeSpec == DecodeInit /\ [][DecodeNext]_vars

(***************************************************************************)
(* fit.  The dataset is its target tensor Y, one row per example; a row is *)
(* START, its symbols and right padding.  The loss terms of a mini-batch   *)
(* are <<row, predicted position, target position>>, positions 0-based.    *)
(***************************************************************************)
IgnoreIndex == 0

\* Right-padded target rows of width MaxTargetLen.
TargetRows ==
    {[k \in 1..MaxTargetLen |->
         IF k = 1 THEN StartIndex
         ELSE IF k <= n + 1 THEN in_vocabulary[LetterA] ELSE in_vocabulary[PadSymbol]] :
        n \in 0..(MaxTargetLen - 1)}

Datasets == {<<>>} \cup SeqsUpTo(TargetRows, MaxRows)

Verbosities == 0..3
SavePaths == {None, "model.pt"}

FitCalls ==
    {[op |-> "fit", Y |-> y, epochs |-> n, batch_size |-> b, verbose |-> v, save_path |-> p] :
        y \in Datasets, n \in 0..MaxEpochs, b \in 1..MaxRows, v \in Verbosities,
        p \in SavePaths}

\* predictions[:, :, :-1]: the predicted positions without the last one
DropLastPosition(width) == [k \in 1..(width - 1) |-> k - 1]

\* y[:, 1:]: the target positions without the first one
DropFirstPosition(width) == [k \in 1..(width - 1) |-> k]

\* nn.CrossEntropyLoss(ignore_index) applied to a mini-batch: the k-th
\* prediction is compared with the k-th target, unless that target is
\* ignore_index.
CrossEntropyLoss(y, rows, predicted, targets, ignore_index) ==
    {<<bk[1], predicted[bk[2]], targets[bk[2]]>> :
        bk \in {c \in rows \X DOMAIN targets : y[c[1]][targets[c[2]] + 1] # ignore_index}}

\* Line 30, with the default ignore_index of the library.
criterion_default(y, rows, predicted, targets) ==
    CrossEntropyLoss(y, rows, predicted, targets, -100)

\* Line 30: criterion = nn.CrossEntropyLoss(ignore_index = 0)
criterion(y, rows, predicted, targets) ==
    CrossEntropyLoss(y, rows, predicted, targets, IgnoreIndex)

\* Line 39: loss = criterion(predictions[:, :, :-1], y[:, 1:]) for the
\* mini-batch made of the given rows of the dataset
LossTerms(y, rows) ==
    criterion(y, rows, DropLastPosition(MaxTargetLen), DropFirstPosition(MaxTargetLen))

\* Mini-batches the data loader may serve next: batch_size of the rows it
\* has not served in this epoch, in any order, or all that are left.
NextBatches(left, batch_size) ==
    {B \in SUBSET left : Cardinality(B) = Min(batch_size, Cardinality(left))}

\* Mini-batches per epoch.
BatchesPerEpoch(rows, batch_size) == (rows + batch_size - 1) \div batch_size

FitInit ==
    /\ out_vocabulary = VocabularyA
    /\ in_vocabulary = Inverse(VocabularyA)
    /\ pc = "epoch"
    /\ call \in FitCalls
    /\ training \in BOOLEAN
    /\ saved = 0
    /\ X = None
    /\ Y = None
    /\ dec = None
    /\ strategy = None
    /\ calls = 0
    /\ ret = None
    /\ raised = None
    /\ fitst = [e |-> 0, left |-> {}, losses |-> 0, updates |-> 0, terms |-> {},
                batch |-> {}, entered_training |-> training, step_training |-> TRUE,
                failed_at |-> None]

\* Line 35, the loop goes on: the next epoch starts with an empty list of
\* losses and a fresh iterator over the shuffled dataset (lines 36-37).
EpochBegin ==
    /\ pc = "epoch"
    /\ fitst.e < call.epochs
    /\ fitst' = [fitst EXCEPT !.e = @ + 1, !.left = DOMAIN call.Y, !.losses = 0]
    /\ pc' = "batch"
    /\ UNCHANGED <<in_vocabulary, out_vocabulary, training, saved, call, X, Y, dec,
                   strategy, calls, ret, raised>>

\* Line 35, the loop is over.
EpochsDone ==
    /\ pc = "epoch"
    /\ fitst.e = call.epochs
    /\ pc' = "save"
    /\ UNCHANGED <<in_vocabulary, out_vocabulary, training, saved, call, X, Y, dec,
                   strategy, calls, ret, raised, fitst>>

\* Lines 38-43: forward, loss, backward and the optimizer's step on the next
\* mini-batch.
BatchStep ==
    /\ pc = "batch"
    /\ fitst.left # {}
    /\ \E B \in NextBatches(fitst.left, call.batch_size) :
          fitst' = [fitst EXCEPT !.left = @ \ B, !.batch = B,
                                 !.terms = LossTerms(call.Y, B),
                                 !.losses = @ + 1, !.updates = @ + 1,
                                 !.step_training = training]
    /\ calls' = calls + 1
    /\ UNCHANGED <<in_vocabulary, out_vocabulary, training, saved, pc, call, X, Y,
                   dec, strategy, ret, raised>>

\* Lines 38-43 raise (the forward pass, the loss or the update fails): the
\* exception leaves fit, which handles none.
BatchFail ==
    /\ pc = "batch"
    /\ fitst.left # {}
    /\ raised' = "RuntimeError"
    /\ fitst' = [fitst EXCEPT !.failed_at = "batch"]
    /\ pc' = "raised"
    /\ UNCHANGED <<in_vocabulary, out_vocabulary, training, saved, call, X, Y, dec,
                   strategy, calls, ret>>

\* Lines 44-46 followed by lines 63-64 inside the loop: the parameters are
\* saved at the end of every epoch.
EpochReportThenSave ==
    /\ pc = "batch"
    /\ fitst.left = {}
    /\ fitst.losses > 0
    /\ IF call.verbose > 2
       THEN training' = FALSE /\ pc' = "diagnostics"
       ELSE UNCHANGED training /\ pc' = "epoch"
    /\ saved' = IF call.save_path # None THEN saved + 1 ELSE saved
    /\ UNCHANGED <<in_vocabulary, out_vocabulary, call, X, Y, dec,
                   strategy, calls, ret, raised, fitst>>

\* Lines 44-46: the epoch's mean loss is printed; with verbose > 2 the model
\* is switched to evaluation mode for the diagnostic block.
EpochReport ==
    /\ pc = "batch"
    /\ fitst.left = {}
    /\ fitst.losses > 0
    /\ IF call.verbose > 2
       THEN training' = FALSE /\ pc' = "diagnostics"
       ELSE UNCHANGED training /\ pc' = "epoch"
    /\ UNCHANGED <<in_vocabulary, out_vocabulary, saved, call, X, Y, dec,
                   strategy, calls, ret, raised, fitst>>

\* Line 44 on an empty dataset: sum(losses) / len(losses) divides by zero.
EpochReportFail ==
    /\ pc = "batch"
    /\ fitst.left = {}
    /\ fitst.losses = 0
    /\ raised' = "ZeroDivisionError"
    /\ fitst' = [fitst EXCEPT !.failed_at = "report"]
    /\ pc' = "raised"
    /\ UNCHANGED <<in_vocabulary, out_vocabulary, training, saved, call, X, Y, dec,
                   strategy, calls, ret>>

\* Lines 47-62 without self.train().
DiagnosticsStayInEval ==
    /\ pc = "diagnostics"
    /\ pc' = "epoch"
    /\ UNCHANGED <<in_vocabulary, out_vocabulary, training, saved, call, X, Y, dec,
                   strategy, calls, ret, raised, fitst>>

\* Lines 47-62: the diagnostic decodes are printed and the model is switched
\* back to training mode.
Diagnostics ==
    /\ pc = "diagnostics"
    /\ training' = TRUE
    /\ pc' = "epoch"
    /\ UNCHANGED <<in_vocabulary, out_vocabulary, saved, call, X, Y, dec,
                   strategy, calls, ret, raised, fitst>>

\* Lines 47-61 raise (a forward pass or a decoding strategy fails).
DiagnosticsFail ==
    /\ pc = "diagnostics"
    /\ raised' = "RuntimeError"
    /\ fitst' = [fitst EXCEPT !.failed_at = "diagnostics"]
    /\ pc' = "raised"
    /\ UNCHANGED <<in_vocabulary, out_vocabulary, training, saved, call, X, Y, dec,
                   strategy, calls, ret>>

\* Lines 63-64: torch.save(self.state_dict(), save_path) when a path is given;
\* fit returns.
FitSave ==
    /\ pc = "save"
    /\ saved' = IF call.save_path # None THEN saved + 1 ELSE saved
    /\ pc' = "done"
    /\ UNCHANGED <<in_vocabulary, out_vocabulary, training, call, X, Y, dec,
                   strategy, calls, ret, raised, fitst>>

\* Line 64 raises (the destination cannot be written).
FitSaveFail ==
    /\ pc = "save"
    /\ call.save_path # None
    /\ raised' = "OSError"
    /\ fitst' = [fitst EXCEPT !.failed_at = "save"]
    /\ pc' = "raised"
    /\ UNCHANGED <<in_vocabulary, out_vocabulary, training, saved, call, X, Y, dec,
                   strategy, calls, ret>>

FitNext ==
    \/ EpochBegin
    \/ EpochsDone
    \/ BatchStep
    \/ BatchFail
    \/ EpochReport
    \/ EpochReportFail
    \/ Diagnostics
    \/ DiagnosticsFail
    \/ FitSave
    \/ FitSaveFail

FitSpec == FitInit /\ [][FitNext]_vars

(***************************************************************************)
(* Properties.                                                             *)
(***************************************************************************)
\* s cut after the first occurrence of end; s itself when end does not occur.
TruncateAtFirst(end, s) ==
    IF Contains(s, end)
    THEN LET first == CHOOSE i \in 1..Len(s) :
                         MatchAt(end, s, i) /\ \A j \in 1..(i - 1) : ~MatchAt(end, s, j)
         IN SubSeq(s, 1, first + Len(end) - 1)
    ELSE s

\* The string tensor2text joins for row r of its argument.
JoinedRow(r) ==
    LET voc == IF call.vocabulary.given THEN call.vocabulary.v ELSE out_vocabulary
    IN Join(call.separator, [k \in DOMAIN call.X[r] |-> voc[call.X[r][k]]])

\* The valid calls of generate: a method of the code with arguments its
\* strategy accepts.
ValidGenerateCall ==
    \/ call.method = "greedy_search"
    \/ call.method = "sample" /\ call.temperature > 0
    \/ call.method = "beam_search" /\ call.candidates <= call.beam_width

\* The continuation the invoked strategy produced for row r: for beam search
\* the first-ranked hypothesis.
BestSequence(r) ==
    IF strategy = "beam_search" THEN dec[r][1].seq ELSE dec[r].seq

\* C1: for each of the three strategies, generate returns the detokenized
\* concatenation of the untouched input indices and the continuation without
\* its START symbol, input_length + max_steps symbols per row; the call
\* completes with a text result for every strategy.
C1_GenerateReturnsText ==
    (pc \in {"done", "raised"} /\ ValidGenerateCall) =>
        /\ pc = "done"
        /\ \A r \in DOMAIN X :
              Len(X[r] \o Tail(BestSequence(r))) = Len(X[r]) + call.max_predictions
        /\ ret = tensor2text([r \in DOMAIN X |-> X[r] \o Tail(BestSequence(r))],
                             <<>>, NoVocabulary, EndDefault)

\* C2: with beam_width = candidates = 1 the hypothesis beam search reports
\* holds, at every step, the symbol greedy search chose on the same inputs.
C2_BeamOneIsGreedy ==
    (call.beam_width = 1 /\ call.candidates = 1) =>
        /\ \A r \in DOMAIN X : dec.beam[r][1].seq = dec.greedy[r].seq
        /\ pc = "done" =>
              \A r \in DOMAIN X : ret.beam.sequences[r][1] = ret.greedy.sequences[r]

C2_Witness ==
    /\ pc = "done"
    /\ call.beam_width = 1
    /\ call.candidates = 1
    /\ call.max_steps = MaxPredictions
    /\ Len(X) = 2
    /\ ret.greedy.sequences[1] # ret.greedy.sequences[2]
    /\ ret.greedy.sequences[1][2] # ret.greedy.sequences[1][3]

\* C3: the loss of a mini-batch compares the prediction at position t with
\* the target at position t + 1 for t = 0..T-2 only, and exactly where that
\* target is not the pad index 0.
C3_LossShiftsAndSkipsPad ==
    fitst.updates > 0 =>
        /\ \A term \in fitst.terms :
              /\ term[1] \in fitst.batch
              /\ term[2] \in 0..(MaxTargetLen - 2)
              /\ term[3] = term[2] + 1
              /\ call.Y[term[1]][term[3] + 1] # 0
        /\ \A b \in fitst.batch, t \in 0..(MaxTargetLen - 2) :
              call.Y[b][t + 2] # 0 => <<b, t, t + 1>> \in fitst.terms

C3_Witness ==
    /\ fitst.updates > 0
    /\ Cardinality(fitst.batch) = 2
    /\ \E b \in fitst.batch : call.Y[b][MaxTargetLen] = 0 /\ call.Y[b][2] # 0
    /\ \E b \in fitst.batch : call.Y[b][MaxTargetLen] # 0
    /\ fitst.terms # {}

\* C4: tensor2text cuts every row's joined string after the first occurrence
\* of the end symbol, whatever follows it, and cutting the result again
\* changes nothing.
C4_TruncatesAtFirstEnd ==
    (pc = "text" /\ call.op = "tensor2text") =>
        \A r \in DOMAIN ret :
            /\ ret[r] = TruncateAtFirst(call.end, JoinedRow(r))
            /\ ReSub(call.end, ret[r]) = ret[r]

\* C5: for a vocabulary V used to encode and to decode, tensor2text of
\* text2tensor of one string S is S cut after its first END marker.
C5_RoundTrip ==
    (pc = "text" /\ call.op = "roundtrip" /\ Len(call.strings) = 1
     /\ in_vocabulary = Inverse(out_vocabulary)) =>
        ret[1] = TruncateAtFirst(EndDefault, Concat(call.strings[1]))

\* generate has left its dispatch.
PastDispatch == pc \notin {"generate", "dispatch"}

\* C6, as stated: the names "greedy", "sample" and "beam" select their
\* strategies and every other name fails before any strategy or scoring-model
\* invocation.
C6_DispatchBySpecNames ==
    PastDispatch =>
        /\ call.method = "greedy" => strategy = "greedy_search"
        /\ call.method = "sample" => strategy = "sample"
        /\ call.method = "beam" => strategy = "beam_search"
        /\ call.method \notin {"greedy", "sample", "beam"} =>
              pc = "raised" /\ raised = "ValueError" /\ strategy = None /\ calls = 0

\* C6, amended: the names "greedy_search", "sample" and "beam_search" select
\* their strategies and every other name fails with a ValueError before any
\* strategy or scoring-model invocation.
C6_DispatchByCodeNames ==
    /\ strategy # None => strategy = call.method
    /\ PastDispatch =>
          /\ call.method \in {"greedy_search", "sample", "beam_search"} =>
                strategy = call.method
          /\ call.method \notin {"greedy_search", "sample", "beam_search"} =>
                pc = "raised" /\ raised = "ValueError" /\ strategy = None /\ calls = 0

C6_Witness ==
    /\ pc = "raised"
    /\ call.method = "beam"
    /\ raised = "ValueError"

\* The arguments the strategies reject.
InvalidArguments ==
    \/ call.method = "sample" /\ call.temperature <= 0
    \/ call.method = "beam_search" /\ call.candidates > call.beam_width

C8_NoPadInOutput ==
    pc = "done" => \A r \in DOMAIN ret : ~Contains(ret[r], PadSymbol)

\* C9: the parameters are saved at most once, only with a save path, and only
\* when every mini-batch of every epoch has had its gradient step; a failure
\* ends fit with no save made, and nothing runs after it.
C9_SaveOnlyAfterTraining ==
    /\ saved <= 1
    /\ saved = 1 =>
          /\ call.save_path # None
          /\ pc = "done"
          /\ raised = None
          /\ fitst.e = call.epochs
          /\ fitst.left = {}
          /\ fitst.updates =
                call.epochs * BatchesPerEpoch(Len(call.Y), call.batch_size)
    /\ pc = "done" /\ call.save_path = None => saved = 0
    /\ pc = "raised" => saved = 0 /\ raised # None /\ ~ENABLED FitNext

C9_Witness ==
    /\ pc = "done"
    /\ saved = 1
    /\ call.epochs = 2
    /\ call.verbose = 3
    /\ fitst.updates = 4

\* C10: when fit is entered in training mode, the model is in evaluation mode
\* only inside the diagnostic block (or after a failure inside it), every
\* gradient step runs in training mode, the block starts only after all the
\* epoch's updates, and fit returns in training mode.
C10_EvalOnlyInDiagnostics ==
    fitst.entered_training =>
        /\ ~training =>
              \/ pc = "diagnostics"
              \/ pc = "raised" /\ fitst.failed_at = "diagnostics"
        /\ fitst.step_training
        /\ pc = "diagnostics" =>
              /\ call.verbose > 2
              /\ ~training
              /\ fitst.left = {}
              /\ fitst.updates =
                    fitst.e * BatchesPerEpoch(Len(call.Y), call.batch_size)
        /\ pc = "done" => training

C10_Witness ==
    /\ fitst.entered_training
    /\ call.verbose = 3
    /\ pc = "batch"
    /\ fitst.e = 2
    /\ fitst.updates = 3
    /\ fitst.left # {}
    /\ training

====
